---- MODULE Spec2Model ----
(***************************************************************************)
(* A model of Agent.py: the voice session controller (start_conversation,  *)
(* stop_conversation, handle_user_transcript), the four remote operations  *)
(* (get_conversations, get_audio, delete_conversation, get_messages) and   *)
(* the menu-driven script body main().                                     *)
(*                                                                         *)
(* Two specifications are given.                                           *)
(*   Spec     the program as it runs: every user interaction re-executes   *)
(*            the script (module level, then main()), st.session_state      *)
(*            persists between executions, and the SDK delivers user        *)
(*            transcripts to handle_user_transcript while a session lives.  *)
(*   SpecApi  the client operations called directly, in one module          *)
(*            namespace, in any order and in any state.                     *)
(*                                                                         *)
(* Assumptions about the libraries, which the source does not show:        *)
(* Conversation(...) does not raise; start_session may raise (rejected     *)
(* credentials); stop_session does not raise; requests raises on a network *)
(* error and otherwise returns a response.  A script execution and a       *)
(* delivery of a transcript are each one step: the SDK's thread is not     *)
(* interleaved with the statements of start_conversation.                  *)
(***************************************************************************)
EXTENDS Integers, Sequences, FiniteSets, TLC

\* The number of Conversation objects that may be constructed in one behaviour.
MaxSessions == 3

\* The value of the module-level handle when it refers to no session.
None == 0

\* The only status the remote operations treat as success.
HTTP_OK == 200

VARIABLES
    conversation,   \* the module-level handle: None or a session
    session_state,  \* st.session_state: a mapping that may hold "agent_running"
    sessions,       \* each Conversation object: "unborn", "created", "started", "stopped"
    last            \* what the last operation was given, did, wrote and returned

vars == <<conversation, session_state, sessions, last>>

SessionIds == 1..MaxSessions

----------------------------------------------------------------------------
(* st.session_state *)

EmptySessionState == [k \in {} |-> FALSE]

HasFlag(ss) == "agent_running" \in DOMAIN ss

\* st.session_state.agent_running, read where the code knows it is set.
Running(ss) == HasFlag(ss) /\ ss["agent_running"]

SetFlag(ss, v) == [k \in DOMAIN ss \cup {"agent_running"} |->
                     IF k = "agent_running" THEN v ELSE ss[k]]

----------------------------------------------------------------------------
(* Text: str.strip() and str.lower(), on sequences of one-character strings *)

Whitespace == {" ", "\t", "\n"}

UpperCase == <<"A","B","C","D","E","F","G","H","I","J","K","L","M",
               "N","O","P","Q","R","S","T","U","V","W","X","Y","Z">>
LowerCase == <<"a","b","c","d","e","f","g","h","i","j","k","l","m",
               "n","o","p","q","r","s","t","u","v","w","x","y","z">>

LowerChar(c) ==
    IF \E i \in 1..Len(UpperCase) : UpperCase[i] = c
    THEN LowerCase[CHOOSE i \in 1..Len(UpperCase) : UpperCase[i] = c]
    ELSE c

lower(s) == [i \in 1..Len(s) |-> LowerChar(s[i])]

RECURSIVE lstrip(_)
lstrip(s) == IF s # <<>> /\ Head(s) \in Whitespace THEN lstrip(Tail(s)) ELSE s

RECURSIVE rstrip(_)
rstrip(s) ==
    IF s # <<>> /\ s[Len(s)] \in Whitespace
    THEN rstrip(SubSeq(s, 1, Len(s) - 1))
    ELSE s

strip(s) == rstrip(lstrip(s))

StopWord == <<"s", "t", "o", "p">>

\* The utterances the SDK may report.
Utterances ==
    { StopWord,
      <<" ", " ", "S", "t", "o", "p", " ", " ">>,
      <<"S", "T", "O", "P">>,
      <<"\t", "s", "t", "o", "p", "\n">>,
      <<"s", "t", "o", "p", " ", "i", "t">>,
      <<"s", " ", "t", "o", "p">>,
      <<"h", "i">>,
      <<" ">>,
      <<>> }

----------------------------------------------------------------------------
(* Values returned by the operations *)

Void == [kind |-> "void", list |-> <<>>, str |-> ""]
PyNone == [kind |-> "None", list |-> <<>>, str |-> ""]
ListOf(l) == [kind |-> "list", list |-> l, str |-> ""]
StrOf(s) == [kind |-> "str", list |-> <<>>, str |-> s]
\* f"{conversation_id}_audio.wav"
PathOf(id) == [kind |-> "path", list |-> <<id, "_audio.wav">>, str |-> ""]

Return(v) == [raised |-> "", result |-> v, wrote |-> {}]
Raise(e) == [raised |-> e, result |-> Void, wrote |-> {}]

----------------------------------------------------------------------------
(* What the remote service may answer.  A response is a network error (the  *)
(* requests call raises) or a status with a body.  A JSON object is a       *)
(* record, so that `key in data` is key \in DOMAIN data.                    *)

ConversationIds == {"a1", "b2"}

Payload(p) == [payload |-> p]

DictBody(d) == [type |-> "dict", val |-> d]
ListBody == [type |-> "list", val |-> Payload("[]")]
NotJsonBody == [type |-> "notjson", val |-> Payload("<html>")]
BytesBody(p) == [type |-> "bytes", val |-> Payload(p)]
NoBody == [type |-> "none", val |-> Payload("")]

Answer(status, body) == [neterr |-> FALSE, status |-> status, body |-> body]
NetworkError == [neterr |-> TRUE, status |-> 0, body |-> NoBody]
NoResponse == [neterr |-> FALSE, status |-> 0, body |-> NoBody]

FailureStatuses == {403, 404}

Failures == {NetworkError} \cup {Answer(st, DictBody([detail |-> "error"])) : st \in FailureStatuses}

RegistryResponses ==
    Failures \cup
    { Answer(HTTP_OK, DictBody([conversations |-> <<[conversation_id |-> "a1"], [conversation_id |-> "b2"]>>])),
      Answer(HTTP_OK, DictBody([conversations |-> <<[conversation_id |-> "a1"]>>])),
      Answer(HTTP_OK, DictBody([conversations |-> <<>>])),
      Answer(HTTP_OK, DictBody([conversations |-> <<[conversation_id |-> "a1"], [agent_id |-> "x"]>>])),
      Answer(HTTP_OK, DictBody([detail |-> "none"])),
      Answer(HTTP_OK, ListBody),
      Answer(HTTP_OK, NotJsonBody) }

TranscriptResponses ==
    Failures \cup
    { Answer(HTTP_OK, DictBody([transcript |-> <<[message |-> "hi"], [message |-> "bye"]>>])),
      Answer(HTTP_OK, DictBody([transcript |-> <<>>])),
      Answer(HTTP_OK, DictBody([transcript |-> <<[message |-> "hi"], [role |-> "user"]>>])),
      Answer(HTTP_OK, DictBody([status |-> "done"])),
      Answer(HTTP_OK, ListBody),
      Answer(HTTP_OK, NotJsonBody) }

AudioResponses ==
    Failures \cup { Answer(HTTP_OK, BytesBody("mp3")), Answer(HTTP_OK, BytesBody("corrupt")) }

DeleteResponses ==
    Failures \cup { Answer(HTTP_OK, DictBody([detail |-> "deleted"])) }

----------------------------------------------------------------------------
(* The remote operations *)

get_conversations(response) ==
    IF response.neterr THEN Raise("ConnectionError")
    ELSE IF response.status = HTTP_OK THEN
        IF response.body.type = "notjson" THEN Raise("JSONDecodeError")
        ELSE LET data == response.body.val IN
            IF response.body.type = "dict" /\ "conversations" \in DOMAIN data THEN
                IF \A i \in 1..Len(data.conversations) :
                       "conversation_id" \in DOMAIN data.conversations[i]
                THEN Return(ListOf([i \in 1..Len(data.conversations) |->
                                        data.conversations[i].conversation_id]))
                ELSE Raise("KeyError")
            ELSE Return(ListOf(<<>>))
    ELSE Return(ListOf(<<>>))

get_audio(conversation_id, response) ==
    IF response.neterr THEN Raise("ConnectionError")
    ELSE IF response.status = HTTP_OK THEN
        IF response.body.val.payload = "mp3"
        THEN [raised |-> "", result |-> PathOf(conversation_id),
              wrote |-> {PathOf(conversation_id).list}]
        ELSE Raise("CouldntDecodeError")
    ELSE Return(PyNone)

delete_conversation(conversation_id, response) ==
    IF response.neterr THEN Raise("ConnectionError")
    ELSE IF response.status = HTTP_OK
    THEN Return(StrOf("Conversation deleted successfully."))
    ELSE Return(StrOf("Failed to delete the conversation."))

\* get_messages with one placeholder for both of its fallbacks.
get_messages_one_placeholder(conversation_id, response) ==
    IF response.neterr THEN Raise("ConnectionError")
    ELSE IF response.status = HTTP_OK THEN
        IF response.body.type = "notjson" THEN Raise("JSONDecodeError")
        ELSE LET data == response.body.val IN
            IF response.body.type = "dict" /\ "transcript" \in DOMAIN data THEN
                IF \A i \in 1..Len(data.transcript) : "message" \in DOMAIN data.transcript[i]
                THEN Return(ListOf([i \in 1..Len(data.transcript) |->
                                        data.transcript[i].message]))
                ELSE Raise("KeyError")
            ELSE Return(ListOf(<<"No messages found in this conversation.">>))
    ELSE Return(ListOf(<<"No messages found in this conversation.">>))

get_messages(conversation_id, response) ==
    IF response.neterr THEN Raise("ConnectionError")
    ELSE IF response.status = HTTP_OK THEN
        IF response.body.type = "notjson" THEN Raise("JSONDecodeError")
        ELSE LET data == response.body.val IN
            IF response.body.type = "dict" /\ "transcript" \in DOMAIN data THEN
                IF \A i \in 1..Len(data.transcript) : "message" \in DOMAIN data.transcript[i]
                THEN Return(ListOf([i \in 1..Len(data.transcript) |->
                                        data.transcript[i].message]))
                ELSE Raise("KeyError")
            ELSE Return(ListOf(<<"No messages found in this conversation.">>))
    ELSE Return(ListOf(<<"Failed to fetch messages.">>))

----------------------------------------------------------------------------
(* The voice session controller.  An operation takes the world it runs in   *)
(* (the handle its namespace holds, st.session_state, the sessions) and     *)
(* gives the world it leaves, with a note of what it did.                   *)

World(c, ss, se) ==
    [conversation |-> c, session_state |-> ss, sessions |-> se, wrote |-> {},
     stop_called |-> FALSE, stopped |-> None, opened |-> None,
     raised |-> "", calls |-> <<>>]

Unborn(se) == {n \in SessionIds : se[n] = "unborn"}

\* The object Conversation(...) constructs: the next one not yet constructed.
NewSession(se) == CHOOSE n \in Unborn(se) : \A m \in Unborn(se) : n <= m

Live(se) == {n \in SessionIds : se[n] = "started"}

\* conversation.stop_session(): tears down a session that is live.
stop_session(se, h) == IF se[h] = "started" THEN [se EXCEPT ![h] = "stopped"] ELSE se

start_conversation(w, start_ok) ==
    LET n == NewSession(w.sessions) IN
    IF start_ok
    THEN [w EXCEPT !.conversation = n,
                   !.sessions = [@ EXCEPT ![n] = "started"],
                   !.session_state = SetFlag(@, TRUE),
                   !.opened = n]
    ELSE [w EXCEPT !.conversation = n,
                   !.sessions = [@ EXCEPT ![n] = "created"],
                   !.raised = "start_session"]

stop_conversation(w) ==
    IF w.conversation # None
    THEN [w EXCEPT !.sessions = stop_session(@, w.conversation),
                   !.session_state = SetFlag(@, FALSE),
                   !.stop_called = TRUE,
                   !.stopped = w.conversation]
    ELSE [w EXCEPT !.stop_called = TRUE]

handle_user_transcript(w, transcript) ==
    IF lower(strip(transcript)) = StopWord THEN stop_conversation(w) ELSE w

----------------------------------------------------------------------------
(* main() *)

Services ==
    <<"Select a service", "Start the Agensense", "Get Conversations History",
      "Get Conversation Audio", "Delete Conversation", "Twillo Configuration",
      "Send Email", "Schedule Meeting", "Translation">>

\* One remote call made by an operation: what it was given and what it gave.
Call(op, id, response, ret) ==
    [op |-> op, id |-> id, response |-> response,
     raised |-> ret.raised, result |-> ret.result]

\* After, were a call that raised or got a status other than 200 to end the
\* session bookkeeping as well.
After_resetting(w, call, ret) ==
    [w EXCEPT !.calls = Append(@, [call |-> call,
                                   running |-> Running(w.session_state),
                                   handle |-> w.conversation,
                                   live |-> Live(w.sessions)]),
              !.raised = ret.raised,
              !.wrote = @ \cup ret.wrote,
              !.session_state =
                  IF call.response.neterr \/ call.response.status # HTTP_OK
                  THEN SetFlag(@, FALSE) ELSE @]

\* The world after a remote call, which touches neither the handle nor
\* st.session_state; the call is noted with the session state it was made in.
\* An exception it raises ends the operation that made it.
After(w, call, ret) ==
    [w EXCEPT !.calls = Append(@, [call |-> call,
                                   running |-> Running(w.session_state),
                                   handle |-> w.conversation,
                                   live |-> Live(w.sessions)]),
              !.raised = ret.raised,
              !.wrote = @ \cup ret.wrote]

main(w, selected_service, clicked, start_ok, r_list, pick, r_detail) ==
    LET w1 == IF ~HasFlag(w.session_state)
              THEN [w EXCEPT !.session_state = SetFlag(@, FALSE)]
              ELSE w
        w2 == IF Running(w1.session_state) THEN stop_conversation(w1) ELSE w1
        ids == get_conversations(r_list)
        w3 == After(w2, Call("get_conversations", "", r_list, ids), ids)
        conversation_ids == ids.result.list
        selected_conversation_id == conversation_ids[pick]
    IN  IF selected_service = "Start the Agensense" THEN
            IF ~Running(w1.session_state)
            THEN IF clicked THEN start_conversation(w1, start_ok) ELSE w1
            ELSE IF clicked THEN stop_conversation(w1) ELSE w1
        ELSE IF selected_service = "Get Conversations History" THEN
            IF ids.raised = "" /\ conversation_ids # <<>>
            THEN LET messages == get_messages(selected_conversation_id, r_detail)
                 IN After(w3, Call("get_messages", selected_conversation_id,
                                   r_detail, messages), messages)
            ELSE w3
        ELSE IF selected_service = "Get Conversation Audio" THEN
            IF ids.raised = "" /\ conversation_ids # <<>>
            THEN LET audio_file_path == get_audio(selected_conversation_id, r_detail)
                 IN After(w3, Call("get_audio", selected_conversation_id,
                                   r_detail, audio_file_path), audio_file_path)
            ELSE w3
        ELSE IF selected_service = "Delete Conversation" THEN
            IF ids.raised = "" /\ conversation_ids # <<>> /\ clicked
            THEN LET result == delete_conversation(selected_conversation_id, r_detail)
                 IN After(w3, Call("delete_conversation", selected_conversation_id,
                                   r_detail, result), result)
            ELSE w3
        ELSE w1

----------------------------------------------------------------------------
(* The state *)

Note(op, utterance, w) ==
    [op |-> op, utterance |-> utterance,
     was_running |-> Running(session_state), was_handle |-> conversation,
     stop_called |-> w.stop_called, stopped |-> w.stopped, opened |-> w.opened,
     raised |-> w.raised, calls |-> w.calls, wrote |-> w.wrote]

Init ==
    /\ conversation = None
    /\ session_state = EmptySessionState
    /\ sessions = [n \in SessionIds |-> "unborn"]
    /\ last = [op |-> "init", utterance |-> <<>>, was_running |-> FALSE,
               was_handle |-> None, stop_called |-> FALSE, stopped |-> None,
               opened |-> None, raised |-> "", calls |-> <<>>, wrote |-> {}]

\* The state an operation leaves, from the world it leaves.
Leaves(op, utterance, w) ==
    /\ session_state' = w.session_state
    /\ sessions' = w.sessions
    /\ last' = Note(op, utterance, w)

----------------------------------------------------------------------------
(* Spec: the program.  One script execution per user interaction: the       *)
(* module level runs first, which sets conversation to None, then main().   *)

ScriptRun(selected_service, clicked, start_ok, r_list, pick, r_detail) ==
    main(World(None, session_state, sessions), selected_service,
         clicked, start_ok, r_list, pick, r_detail)

\* The inputs a branch of main() does not read are held at one value.
Unread(R) == CHOOSE r \in R : TRUE

Listed(r_list) == get_conversations(r_list).result.list

\* st.selectbox gives one of the options it was given.
Picks(r_list) == IF Listed(r_list) = <<>> THEN {1} ELSE 1..Len(Listed(r_list))

Details(r_list, R) == IF Listed(r_list) = <<>> THEN {Unread(R)} ELSE R

RunStart ==
    \E clicked \in BOOLEAN, start_ok \in BOOLEAN :
        /\ (clicked /\ ~Running(session_state)) => Unborn(sessions) # {}
        /\ (~clicked \/ Running(session_state)) => start_ok
        /\ LET w == ScriptRun("Start the Agensense", clicked, start_ok,
                              Unread(RegistryResponses), 1, Unread(DeleteResponses))
           IN  /\ conversation' = w.conversation
               /\ Leaves("Start the Agensense", <<>>, w)

RunHistory ==
    \E r_list \in RegistryResponses :
        \E pick \in Picks(r_list), r_detail \in Details(r_list, TranscriptResponses) :
            LET w == ScriptRun("Get Conversations History", FALSE, TRUE,
                               r_list, pick, r_detail)
            IN  /\ conversation' = w.conversation
                /\ Leaves("Get Conversations History", <<>>, w)

RunAudio ==
    \E r_list \in RegistryResponses :
        \E pick \in Picks(r_list), r_detail \in Details(r_list, AudioResponses) :
            LET w == ScriptRun("Get Conversation Audio", FALSE, TRUE,
                               r_list, pick, r_detail)
            IN  /\ conversation' = w.conversation
                /\ Leaves("Get Conversation Audio", <<>>, w)

RunDelete ==
    \E r_list \in RegistryResponses, clicked \in BOOLEAN :
        \E pick \in Picks(r_list),
           r_detail \in IF clicked THEN Details(r_list, DeleteResponses)
                        ELSE {Unread(DeleteResponses)} :
            LET w == ScriptRun("Delete Conversation", clicked, TRUE,
                               r_list, pick, r_detail)
            IN  /\ conversation' = w.conversation
                /\ Leaves("Delete Conversation", <<>>, w)

RunOther ==
    \E i \in {1} \cup (6..Len(Services)) :
        LET w == ScriptRun(Services[i], FALSE, TRUE,
                           Unread(RegistryResponses), 1, Unread(DeleteResponses))
        IN  /\ conversation' = w.conversation
            /\ Leaves(Services[i], <<>>, w)

\* The SDK reports an utterance of a live session.  The callback is the
\* function object registered when the session was constructed; the handle it
\* reads is the one of the namespace it runs in, which is the current one if
\* the host re-executes the script in place and the one of the execution that
\* started the session (whose handle is that session) if each execution gets
\* a namespace of its own.
Transcript ==
    \E s \in Live(sessions), transcript \in Utterances :
      \E h \in {conversation, s} :
        LET w == handle_user_transcript(World(h, session_state, sessions), transcript)
        IN  /\ conversation' = conversation
            /\ Leaves("handle_user_transcript", transcript, w)

Next == RunStart \/ RunHistory \/ RunAudio \/ RunDelete \/ RunOther \/ Transcript

Spec == Init /\ [][Next]_vars

----------------------------------------------------------------------------
(* SpecApi: the client operations called directly, in one namespace.        *)

Here == World(conversation, session_state, sessions)

ApiStart ==
    \E start_ok \in BOOLEAN :
        /\ Unborn(sessions) # {}
        /\ LET w == start_conversation(Here, start_ok)
           IN  /\ conversation' = w.conversation
               /\ Leaves("start_conversation", <<>>, w)

ApiStop ==
    LET w == stop_conversation(Here)
    IN  /\ conversation' = w.conversation
        /\ Leaves("stop_conversation", <<>>, w)

ApiTranscript ==
    \E transcript \in Utterances :
        LET w == handle_user_transcript(Here, transcript)
        IN  /\ conversation' = w.conversation
            /\ Leaves("handle_user_transcript", transcript, w)

ApiGetConversations ==
    \E response \in RegistryResponses :
        LET ret == get_conversations(response)
            w == After(Here, Call("get_conversations", "", response, ret), ret)
        IN  /\ conversation' = w.conversation
            /\ Leaves("get_conversations", <<>>, w)

ApiGetMessages ==
    \E id \in ConversationIds, response \in TranscriptResponses :
        LET ret == get_messages(id, response)
            w == After(Here, Call("get_messages", id, response, ret), ret)
        IN  /\ conversation' = w.conversation
            /\ Leaves("get_messages", <<>>, w)

ApiGetAudio ==
    \E id \in ConversationIds, response \in AudioResponses :
        LET ret == get_audio(id, response)
            w == After(Here, Call("get_audio", id, response, ret), ret)
        IN  /\ conversation' = w.conversation
            /\ Leaves("get_audio", <<>>, w)

ApiDelete ==
    \E id \in ConversationIds, response \in DeleteResponses :
        LET ret == delete_conversation(id, response)
            w == After(Here, Call("delete_conversation", id, response, ret), ret)
        IN  /\ conversation' = w.conversation
            /\ Leaves("delete_conversation", <<>>, w)

NextApi ==
    \/ ApiStart \/ ApiStop \/ ApiTranscript
    \/ ApiGetConversations \/ ApiGetMessages \/ ApiGetAudio \/ ApiDelete

SpecApi == Init /\ [][NextApi]_vars

----------------------------------------------------------------------------
(* The claims *)

\* A remote call failed: a network error or a status that is not a success.
RemoteFailure(response) == response.neterr \/ response.status \notin 200..299

Calls == {last.calls[i] : i \in 1..Len(last.calls)}

RegistryRuns ==
    {"Get Conversations History", "Get Conversation Audio", "Delete Conversation"}

\* C1: start_conversation called while the state is Running fails with
\* SessionAlreadyActive and leaves the session untouched: the handle is not
\* replaced, no second session is opened and the state stays Running.
C1_StartWhileRunningFails ==
    (last.op = "start_conversation" /\ last.was_running) =>
        /\ last.raised = "SessionAlreadyActive"
        /\ conversation = last.was_handle
        /\ last.opened = None
        /\ Running(session_state)

\* C2: at any time at most one session has been started and not yet stopped,
\* and no started session is left alive with its handle overwritten or lost:
\* a live session is the one the handle refers to.
C2_AtMostOneLiveSession ==
    /\ Cardinality(Live(sessions)) <= 1
    /\ \A s \in Live(sessions) : conversation = s

\* C3: whenever stop_conversation is called while the state is Running, the
\* session is torn down and the state is Idle when it returns.
C3_StopWhileRunningStops ==
    (last.stop_called /\ last.was_running) =>
        /\ ~Running(session_state)
        /\ last.stopped # None
        /\ Live(sessions) = {}

C4_StopUtterances ==
    { <<"s", "t", "o", "p">>,
      <<" ", " ", "S", "t", "o", "p", " ", " ">>,
      <<"S", "T", "O", "P">>,
      <<"\t", "s", "t", "o", "p", "\n">> }

\* C4: when the transcript callback gets an utterance that is "stop" once
\* trimmed and lower-cased, stop_conversation is called and the state is Idle
\* afterwards; any other utterance leaves the session state as it was.
C4_SpokenStopStops ==
    (last.op = "handle_user_transcript") =>
        IF last.utterance \in C4_StopUtterances
        THEN last.stop_called /\ ~Running(session_state)
        ELSE ~last.stop_called /\ Running(session_state) = last.was_running

\* C5: stop_conversation called while the state is Idle is a no-op: the state
\* stays Idle and stop_session is issued to no session.
C5_StopWhenIdleIsNoOp ==
    (last.op = "stop_conversation" /\ ~last.was_running) =>
        /\ ~Running(session_state)
        /\ last.stopped = None

Fallback(op) ==
    CASE op = "get_conversations" -> ListOf(<<>>)
      [] op = "get_messages" -> ListOf(<<"Failed to fetch messages.">>)
      [] op = "get_audio" -> PyNone
      [] op = "delete_conversation" -> StrOf("Failed to delete the conversation.")

\* C7: every remote call that fails, by a network error or by a non-success
\* status, returns the operation's fallback value and raises nothing.
C7_FailureGivesFallback ==
    \A c \in Calls : RemoteFailure(c.call.response) =>
        /\ c.call.raised = ""
        /\ c.call.result = Fallback(c.call.op)

C8_Entries(response) == response.body.val.conversations

C8_HasList(response) ==
    response.body.type = "dict" /\ "conversations" \in DOMAIN response.body.val

C8_EntryLacksId(response) ==
    /\ C8_HasList(response)
    /\ \E i \in 1..Len(C8_Entries(response)) :
           "conversation_id" \notin DOMAIN C8_Entries(response)[i]

\* C8: get_conversations returns the conversation_id of every entry, in
\* response order, on a success status; it returns the empty list and raises
\* nothing on a non-success status and on a body that is not an object, has
\* no conversations field or has an entry without conversation_id.
C8_ListConversations ==
    \A c \in Calls : (c.call.op = "get_conversations" /\ ~c.call.response.neterr) =>
        LET response == c.call.response IN
        /\ (response.status = HTTP_OK /\ C8_HasList(response)
                /\ ~C8_EntryLacksId(response)) =>
               /\ c.call.raised = ""
               /\ c.call.result.kind = "list"
               /\ Len(c.call.result.list) = Len(C8_Entries(response))
               /\ \A i \in 1..Len(C8_Entries(response)) :
                      c.call.result.list[i] = C8_Entries(response)[i].conversation_id
        /\ (\/ response.status # HTTP_OK
            \/ response.body.type = "list"
            \/ (response.body.type = "dict" /\ ~C8_HasList(response))
            \/ C8_EntryLacksId(response)) =>
               /\ c.call.raised = ""
               /\ c.call.result = ListOf(<<>>)

C9_HasTranscript(response) ==
    response.body.type = "dict" /\ "transcript" \in DOMAIN response.body.val

C9_WellFormed(response) ==
    /\ C9_HasTranscript(response)
    /\ \A i \in 1..Len(response.body.val.transcript) :
           "message" \in DOMAIN response.body.val.transcript[i]

\* C9: get_messages returns the message texts of the transcript field, in
\* response order, on a success response; one placeholder string when the
\* transcript field is absent; another placeholder string when the status is
\* not a success; and raises in none of these cases.
C9_GetTranscript ==
    \A c \in Calls : (c.call.op = "get_messages" /\ ~c.call.response.neterr) =>
        LET response == c.call.response IN
        /\ (response.status = HTTP_OK /\ C9_WellFormed(response)) =>
               /\ c.call.raised = ""
               /\ c.call.result.kind = "list"
               /\ Len(c.call.result.list) = Len(response.body.val.transcript)
               /\ \A i \in 1..Len(response.body.val.transcript) :
                      c.call.result.list[i] = response.body.val.transcript[i].message
        /\ (response.status = HTTP_OK /\ response.body.type \in {"dict", "list"}
                /\ ~C9_HasTranscript(response)) =>
               /\ c.call.raised = ""
               /\ c.call.result = ListOf(<<"No messages found in this conversation.">>)
        /\ (response.status # HTTP_OK) =>
               /\ c.call.raised = ""
               /\ c.call.result.kind = "list"
               /\ Len(c.call.result.list) = 1
               /\ c.call.result.list[1] # "No messages found in this conversation."

\* A transcript of two messages was fetched and came back in its order.
C9_Witness ==
    \E c \in Calls :
        /\ c.call.op = "get_messages"
        /\ c.call.response.status = HTTP_OK
        /\ C9_WellFormed(c.call.response)
        /\ c.call.result.list = <<"hi", "bye">>

\* C10: agent_running is True exactly when the module-level handle refers to
\* a session that has been started and not stopped.
C10_FlagMatchesHandle ==
    Running(session_state) <=> (conversation \in Live(sessions))

====
